---------------------------- MODULE Spec2Model ----------------------------
(***************************************************************************)
(* Model of the test orchestrator of core/Process_Control_20251201.py:     *)
(* TestStateManager, Validator, TestJudge, UARTCommunicator and            *)
(* TestRunner, driven by one caller thread, with the stop event set by     *)
(* another thread.                                                         *)
(*                                                                         *)
(* Text is modelled as a sequence of one-character strings, so that        *)
(* strip(), split(" ", 1) and int() are computed as Python computes them.  *)
(* An Optional value is a sequence of length 0 (None) or 1.                *)
(***************************************************************************)
EXTENDS Integers, Sequences, FiniteSets, TLC

\* ------------------------------------------------------------ bounds

\* Most results the manager stores in the model.
MaxResults == 2
\* Most invocations of TestRunner.run_test_task that look a command up, in the
\* model.
MaxTasks == 2
\* Callbacks registered with one manager, the runner's included.
MaxCallbacks == 3

\* ------------------------------------------------------- Python values

None == << >>
Some(x) == << x >>

\* Python truthiness of an Optional[str]: neither None nor "".
Truthy(o) == o # None /\ o[1] # << >>

\* ------------------------------------------------------------- strings

RECURSIVE LStrip(_)
LStrip(s) == IF s # << >> /\ Head(s) = " " THEN LStrip(Tail(s)) ELSE s

RECURSIVE RStrip(_)
RStrip(s) == IF s # << >> /\ s[Len(s)] = " " THEN RStrip(SubSeq(s, 1, Len(s) - 1)) ELSE s

\* str.strip()
strip(s) == RStrip(LStrip(s))

DigitChars == {"0", "1", "2", "3", "4", "5", "6", "7", "8", "9"}

DigitVal(c) ==
    CASE c = "0" -> 0 [] c = "1" -> 1 [] c = "2" -> 2 [] c = "3" -> 3 [] c = "4" -> 4
      [] c = "5" -> 5 [] c = "6" -> 6 [] c = "7" -> 7 [] c = "8" -> 8 [] c = "9" -> 9

RECURSIVE DigitsValue(_)
DigitsValue(s) ==
    IF s = << >> THEN 0 ELSE 10 * DigitsValue(SubSeq(s, 1, Len(s) - 1)) + DigitVal(s[Len(s)])

\* int(s): surrounding whitespace is ignored, a sign may lead; anything else but
\* decimal digits is a ValueError (None here).  The model's alphabet holds no
\* underscore.
PyInt(s) ==
    LET t == strip(s)
        signed == t # << >> /\ Head(t) \in {"+", "-"}
        d == IF signed THEN Tail(t) ELSE t
    IN  IF d # << >> /\ \A i \in 1..Len(d) : d[i] \in DigitChars
        THEN Some(IF signed /\ Head(t) = "-" THEN 0 - DigitsValue(d) ELSE DigitsValue(d))
        ELSE None

\* ---------------------------------------------------------- Validator

\* The index of the first " " of s, 0 when there is none.
FirstSpace(s) ==
    IF \E i \in 1..Len(s) : s[i] = " "
    THEN CHOOSE i \in 1..Len(s) : s[i] = " " /\ \A j \in 1..(i - 1) : s[j] # " "
    ELSE 0

\* A classify_data that strips the response before it splits it.
classify_data_Stripped(response) ==
    LET r == strip(response)
        k == FirstSpace(r)
    IN  IF k = 0
        THEN [prefix |-> r, actual_value |-> None]
        ELSE [prefix |-> SubSeq(r, 1, k - 1),
              actual_value |-> Some(SubSeq(r, k + 1, Len(r)))]

\* Validator.classify_data: response.split(" ", 1), the whole response and None
\* when the split yields one part.
classify_data(response) ==
    LET k == FirstSpace(response)
    IN  IF k = 0
        THEN [prefix |-> response, actual_value |-> None]
        ELSE [prefix |-> SubSeq(response, 1, k - 1),
              actual_value |-> Some(SubSeq(response, k + 1, Len(response)))]

\* An is_valid_timestamp whose window is closed: abs(...) <= 300.
is_valid_timestamp_Inclusive(actual_value, now) ==
    LET t == PyInt(actual_value)
    IN  IF t = None THEN FALSE
        ELSE LET d == now - t[1] IN (IF d < 0 THEN -d ELSE d) <= 300

\* Validator.is_valid_timestamp
is_valid_timestamp(actual_value, now) ==
    LET t == PyInt(actual_value)
    IN  IF t = None THEN FALSE
        ELSE LET d == now - t[1] IN (IF d < 0 THEN -d ELSE d) < 300

HexChars == DigitChars \cup {"A", "B", "C", "D", "E", "F", "a", "b", "c", "d", "e", "f"}

\* Validator.is_valid_mac_address: ^([0-9A-Fa-f]{2}[:-]){5}([0-9A-Fa-f]{2})$
is_valid_mac_address(actual_value) ==
    /\ Len(actual_value) = 17
    /\ \A i \in 1..17 :
          IF i % 3 = 0 THEN actual_value[i] \in {":", "-"} ELSE actual_value[i] \in HexChars

\* Validator.is_valid_rcode
is_valid_rcode(actual_value) == Len(actual_value) > 0

DeferredTypes == {"asynchrony", "restore", "therapy start", "therapy stop"}

\* Validator.validate_data.  A Condition is [type, expected, low, high, status]:
\* expected and status are Optional strings, low and high the integers that
\* int(condition.get("low", 0)) and int(condition.get("high", 0)) yield.
validate_data(condition, actual_value, now) ==
    CASE condition.type = "equal" -> Some(actual_value) = condition.expected
      [] condition.type = "between" ->
            LET v == PyInt(actual_value)
            IN  IF v = None THEN FALSE ELSE condition.low <= v[1] /\ v[1] <= condition.high
      [] condition.type = "valid timestamp" -> is_valid_timestamp(actual_value, now)
      [] condition.type = "valid format_mac" -> is_valid_mac_address(actual_value)
      [] condition.type = "valid format_rcode" -> is_valid_rcode(actual_value)
      [] condition.type \in DeferredTypes -> TRUE
      [] OTHER -> FALSE


\* ------------------------------------------------------------ TestJudge

\* Selected_Test_Plan.yml as load_user_inputs accepts it: every key present and
\* truthy.
user_inputs ==
    [device_sn |-> <<"7">>, fw_version |-> <<"2">>, sw_version |-> <<"3">>,
     wifi_version |-> <<"4">>]

\* TestJudge.get_expected_value
get_expected_value(command_id) ==
    CASE command_id = "Get_SN_Number" -> Some(user_inputs.device_sn)
      [] command_id = "Get_FW_Version" -> Some(user_inputs.fw_version)
      [] command_id = "Get_LCM_Version" -> Some(user_inputs.sw_version)
      [] command_id = "Get_WiFi_Version" -> Some(user_inputs.wifi_version)
      [] OTHER -> None

NoError == None
ErrorMessage(text, expected, got) == Some([text |-> text, expected |-> expected, got |-> got])

\* `if not response` (line 297): send_command returned None or "".
NoResponse(response) == ~Truthy(response)

\* A judge_response that takes every prefix for the expected one.
PrefixMatches_Any(prefix, command_entry) == TRUE

\* `prefix != response_expectation` (line 308), negated.
PrefixMatches(prefix, command_entry) == prefix = command_entry.Response_Expectation

\* `if actual_value` (line 324)
HasValue(actual_value) == Truthy(actual_value)

\* A TestResult that starts as a Pass.
NewTestResult_Pass(step_name, command_entry) ==
    [step_name |-> step_name,
     command_id |-> command_entry.ID,
     title |-> command_entry.Title,
     command_sent |-> command_entry.Command_Sends,
     prefix |-> << >>,
     actual_value |-> Some(<< >>),
     expected_value |-> None,
     result |-> "Pass",
     error_message |-> NoError]

\* The TestResult judge_response starts from (lines 284-295); duration and
\* timestamp are not modelled.
NewTestResult(step_name, command_entry) ==
    [step_name |-> step_name,
     command_id |-> command_entry.ID,
     title |-> command_entry.Title,
     command_sent |-> command_entry.Command_Sends,
     prefix |-> << >>,
     actual_value |-> Some(<< >>),
     expected_value |-> None,
     result |-> "Fail",
     error_message |-> NoError]

\* TestJudge.judge_response.  Yields the TestResult and the entry's Condition as
\* the call leaves it: line 329 writes the run's expected value into the
\* dictionary the command library holds.
judge_response(step_name, command_entry, response, now) ==
    LET r0 == NewTestResult(step_name, command_entry)
        condition == command_entry.Condition
    IN  IF NoResponse(response)
        THEN [result |-> [r0 EXCEPT !.error_message =
                              ErrorMessage("No response received", None, None)],
              condition |-> condition]
        ELSE
        LET c == classify_data(response[1])
            r1 == [r0 EXCEPT !.prefix = c.prefix, !.actual_value = c.actual_value]
        IN  IF ~PrefixMatches(c.prefix, command_entry)
            THEN [result |-> [r1 EXCEPT !.result = "Fail",
                                        !.error_message =
                                            ErrorMessage("Prefix mismatch",
                                                         Some(command_entry.Response_Expectation),
                                                         Some(c.prefix))],
                  condition |-> condition]
            ELSE IF condition.type \in DeferredTypes
            THEN [result |-> [r1 EXCEPT !.result = "Pass",
                                        !.expected_value =
                                            IF condition.status = None
                                            THEN Some(<<"N/A">>) ELSE condition.status],
                  condition |-> condition]
            ELSE IF HasValue(c.actual_value)
            THEN LET expected == get_expected_value(command_entry.ID)
                     cond2 == IF Truthy(expected)
                              THEN [condition EXCEPT !.expected = expected]
                              ELSE condition
                     r2 == IF Truthy(expected)
                           THEN [r1 EXCEPT !.expected_value = expected]
                           ELSE r1
                     is_valid == validate_data(cond2, c.actual_value[1], now)
                 IN  [result |-> IF is_valid
                                 THEN [r2 EXCEPT !.result = "Pass"]
                                 ELSE [r2 EXCEPT !.result = "Fail",
                                                 !.error_message =
                                                     ErrorMessage("Validation failed",
                                                                  expected, c.actual_value)],
                      condition |-> cond2]
            ELSE [result |-> [r1 EXCEPT !.result = "Pass"], condition |-> condition]


\* ------------------------------------------------- UARTCommunicator

\* What the serial port holds when send_command looks: nothing waiting, an
\* exception of the port (serial.SerialException or any other), or a line.
DeviceLines ==
    { << >>,                       \* a blank line
      <<"K">>,                     \* the prefix alone
      <<"K", " ">>,                \* the prefix and a trailing blank
      <<"K", " ", "7">>,
      <<"K", " ", "3">>,
      <<"E", " ", "7">> }

DeviceOutcomes ==
    {[kind |-> "nothing", line |-> << >>], [kind |-> "error", line |-> << >>]}
        \cup {[kind |-> "line", line |-> l] : l \in DeviceLines}

\* UARTCommunicator.send_command: the stripped line, None when nothing waits
\* or the port raised.
send_command(outcome) ==
    IF outcome.kind = "line" THEN Some(strip(outcome.line)) ELSE None

\* --------------------------------------------------------- TestRunner

\* Command_Line.yml: entries 1..3; no other number has an entry.
Cond(type, expected, low, high, status) ==
    [type |-> type, expected |-> expected, low |-> low, high |-> high, status |-> status]

InitialLibrary ==
    [n \in 1..3 |->
        CASE n = 1 -> [ID |-> "Get_SN_Number", Command_Sends |-> "sn", Title |-> "Serial number",
                       Response_Expectation |-> <<"K">>,
                       Condition |-> Cond("equal", Some(<<"3">>), 0, 0, None)]
          [] n = 2 -> [ID |-> "Get_Level", Command_Sends |-> "level", Title |-> "Level",
                       Response_Expectation |-> <<"K">>,
                       Condition |-> Cond("between", None, 2, 5, None)]
          [] n = 3 -> [ID |-> "Get_Mode", Command_Sends |-> "mode", Title |-> "Mode",
                       Response_Expectation |-> <<"K">>,
                       Condition |-> Cond("checksum", None, 0, 0, None)]]

\* str(command_number) of the steps of Test_Case.yml (line 591).
CommandNumbers == {<<"1">>, <<"2">>, <<"3">>, <<"5">>, <<"x">>}
StepNames == {"Step1"}
Step(name, number) == [step_name |-> name, command_number |-> number]

\* Test_Case.yml: a plan whose three commands all have an entry, a plan of four
\* steps of which one has no entry and one no command number, and a plan
\* without steps; "unknown" names no plan of the file.
PlanNames == {"plan", "gaps", "empty", "unknown"}
TestCases ==
    [p \in {"plan", "gaps", "empty"} |->
        CASE p = "plan" -> <<Step("Step1", Some(<<"1">>)), Step("Step1", Some(<<"2">>)),
                             Step("Step1", Some(<<"3">>))>>
          [] p = "gaps" -> <<Step("Step1", Some(<<"1">>)), Step("Step1", Some(<<"5">>)),
                             Step("Step1", None), Step("Step1", Some(<<"2">>))>>
          [] p = "empty" -> << >>]

\* datetime.datetime.now().timestamp() as the validator reads it.
Times == {1000}

\* A lookup that falls back on the first entry of the library.
LookupEntry_First(library, n) ==
    IF n \in DOMAIN library THEN Some(library[n]) ELSE Some(library[1])

\* self.command_library.get(int(command_number)) (line 618)
LookupEntry(library, n) == IF n \in DOMAIN library THEN Some(library[n]) ELSE None

\* `if not command_entry` (line 619)
EntryMissing(command_entry) == command_entry = None

\* TestRunner.run_test_task: the path it takes ("stopped": the stop event is
\* set; "raised": int(command_number) raises ValueError; "missing": no entry;
\* "judged": send_command is invoked and the response judged), what it returns,
\* the response it read, and the command library as it leaves it.
run_test_task(step_name, command_number, stop, library, outcome, now) ==
    LET quiet(path) == [path |-> path, returned |-> None, response |-> None,
                        library |-> library]
    IN  IF stop THEN quiet("stopped")
        ELSE LET n == PyInt(command_number)
             IN  IF n = None THEN quiet("raised")
                 ELSE LET command_entry == LookupEntry(library, n[1])
                      IN  IF EntryMissing(command_entry) THEN quiet("missing")
                          ELSE LET response == send_command(outcome)
                                   judged == judge_response(step_name, command_entry[1],
                                                            response, now)
                               IN  [path |-> "judged",
                                    returned |-> Some(judged.result),
                                    response |-> response,
                                    library |-> [library EXCEPT
                                                    ![n[1]].Condition = judged.condition]]

\* -------------------------------------------------------------- state

TestState == {"idle", "initializing", "running", "paused", "completed", "failed", "stopped"}

\* The states the source passes to set_state (lines 120, 126, 132, 583).
PassedStates == {"running", "completed", "failed", "stopped"}

VARIABLES
    \* TestStateManager
    current_state, current_test_plan, test_results,
    total_tests, passed_tests, failed_tests, skipped_tests,
    lock,            \* self._lock, a threading.Lock: "free" or "held"
    state_callbacks, \* self._state_callbacks: what each callback does when called
    notified,        \* the callback loop of the last set_state
    \* TestRunner
    test_cases, command_library,
    \* the stop event
    stop_event,
    \* the caller thread
    pc,              \* "idle" between calls, else its place in run_test_case
    inside,          \* the locking method of the manager it is inside, or "none"
    test_plan, steps, step_idx,   \* run_test_case's argument, list and loop position
    task_result,     \* what run_test_task returned last
    \* the serial port
    send_count,      \* invocations of send_command
    \* history, read by the properties only
    missing_count,   \* steps since start_test whose command number had no entry
    last             \* the thread's last call: for run_test_task the path it took,
                     \* its command number and the response it read

VARIABLES
    \* a call of judge_response on its own
    j_entry,         \* the command entry passed
    j_response,      \* the response passed
    j_out            \* what the call yields, None before the first call

VARIABLES
    \* a call of the Validator on its own
    v_call           \* the method called, its arguments and what it yields

VARIABLES
    \* main and the two events
    main_pc,         \* main's place
    connection_event,
    \* monitor_serial_port
    mon_pc,          \* the monitor thread's place
    ser,             \* its local `ser`: "none" or "open"
    open_handles,    \* handles on the port the monitor has opened and not closed
    attempt,         \* establish_uart_connection's loop variable, counted from 1
    hs_sent,         \* handshake commands written by the current call of it
    hs_set,          \* connection_event.set() calls made by the current call of it
    hs_timeouts,     \* attempts of the current call that ended by the timeout
    mon_line,        \* the line the monitor's last step read, None when it read none
    mon_fault,       \* the exception the monitor's last step met, or "none"
    mon_examined,    \* the inner loop took mon_line for device output (line 109)
    \* send_command
    tx_pc,           \* "none", or "open" while its `with serial.Serial(...)` is entered
    tx_returned,     \* what send_command returned last: "line" or "None"; "none" before
    \* the device
    reply            \* its reply line to the command send_command wrote last: "none"
                     \* (it sent none), "waiting" to be read, or the reader that
                     \* took it, "send_command" or "monitor"

vars ==
    <<current_state, current_test_plan, test_results, total_tests, passed_tests,
      failed_tests, skipped_tests, lock, state_callbacks, notified, test_cases, command_library, stop_event, pc,
      inside, test_plan, steps, step_idx, task_result, send_count, missing_count,
      last, j_entry, j_response, j_out, v_call, main_pc, connection_event, mon_pc, ser,
      open_handles, attempt, hs_sent, hs_set, hs_timeouts, mon_line, mon_fault,
      mon_examined, tx_pc, tx_returned, reply>>

judge == <<j_entry, j_response, j_out, v_call>>
monitor == <<main_pc, connection_event, mon_pc, ser, open_handles, attempt, hs_sent,
             hs_set, hs_timeouts, mon_line, mon_fault, mon_examined, tx_pc,
             tx_returned, reply>>

manager == <<current_state, current_test_plan, test_results, total_tests, passed_tests,
             failed_tests, skipped_tests, state_callbacks, notified>>
observers == <<state_callbacks, notified>>
counters == <<test_results, total_tests, passed_tests, failed_tests, skipped_tests>>
loop == <<test_plan, steps, step_idx>>
history == <<missing_count>>

Call == [path |-> "call", command_number |-> << >>, response |-> None]

\* No method of the Validator has been called.
NoCall ==
    [op |-> "none", raw |-> << >>, condition |-> InitialLibrary[1].Condition,
     actual_value |-> << >>, now |-> 0, out |-> None]

\* TestStateManager.__init__ and TestRunner.__init__; main has not started the
\* monitor thread.
Init ==
    /\ current_state = "idle"
    /\ current_test_plan = None
    /\ test_results = << >>
    /\ total_tests = 0 /\ passed_tests = 0 /\ failed_tests = 0 /\ skipped_tests = 0
    /\ lock = "free"
    /\ state_callbacks = <<"prints">>       \* TestRunner._on_state_change (line 510)
    /\ notified = [registered |-> 0, called |-> 0, errors |-> 0, raised |-> FALSE]
    /\ test_cases = TestCases
    /\ command_library = InitialLibrary
    /\ stop_event = FALSE
    /\ pc = "idle" /\ inside = "none"
    /\ test_plan = "" /\ steps = << >> /\ step_idx = 0
    /\ task_result = None
    /\ send_count = 0
    /\ missing_count = 0
    /\ last = Call
    /\ j_entry = InitialLibrary[1] /\ j_response = None /\ j_out = None
    /\ v_call = NoCall
    /\ main_pc = "start" /\ connection_event = FALSE
    /\ mon_pc = "not started" /\ ser = "none" /\ open_handles = 0
    /\ attempt = 0 /\ hs_sent = 0 /\ hs_set = 0 /\ hs_timeouts = 0
    /\ mon_line = None /\ mon_fault = "none" /\ mon_examined = FALSE
    /\ tx_pc = "none" /\ tx_returned = "none" /\ reply = "none"

\* The thread is between two calls of the public methods.
Direct == pc = "idle" /\ inside = "none"

\* The thread is at the head of run_test_case's loop (line 581) with a step left,
\* or with none.
AtStep == pc = "rtc_loop" /\ inside = "none" /\ step_idx <= Len(steps)
AtLoopEnd == pc = "rtc_loop" /\ inside = "none" /\ step_idx > Len(steps)

\* `with self._lock`: a threading.Lock is not reentrant, the thread that holds it
\* waits like any other.
LockFree == lock = "free"

\* stop_event.set(), by the thread that controls the run.
SetStop ==
    /\ ~stop_event
    /\ stop_event' = TRUE
    /\ UNCHANGED <<manager, lock, test_cases, command_library, pc, inside, loop,
                   task_result, send_count, history, last>>
    /\ UNCHANGED <<judge, monitor>>

\* What a callback does when it is called: TestRunner._on_state_change prints;
\* another raises an Exception.
CallbackKinds == {"prints", "raises"}

\* TestStateManager.register_state_callback
register_state_callback ==
    /\ Direct
    /\ Len(state_callbacks) < MaxCallbacks
    /\ \E callback \in CallbackKinds : state_callbacks' = Append(state_callbacks, callback)
    /\ last' = Call
    /\ UNCHANGED <<current_state, current_test_plan, counters, notified, lock, test_cases,
                   command_library, stop_event, pc, inside, loop, task_result,
                   send_count, history>>
    /\ UNCHANGED <<judge, monitor>>

Raising(callbacks) == {i \in DOMAIN callbacks : callbacks[i] = "raises"}

\* A callback loop without the try: the first exception leaves it.
NotifyCallbacks_Abort(callbacks) ==
    IF Raising(callbacks) = {}
    THEN [registered |-> Len(callbacks), called |-> Len(callbacks), errors |-> 0,
          raised |-> FALSE]
    ELSE [registered |-> Len(callbacks),
          called |-> CHOOSE i \in Raising(callbacks) : \A j \in Raising(callbacks) : i <= j,
          errors |-> 0, raised |-> TRUE]

\* The callback loop of set_state (lines 99-103): every callback is called, an
\* Exception one raises is caught and logged, none leaves the loop.
NotifyCallbacks(callbacks) ==
    [registered |-> Len(callbacks), called |-> Len(callbacks),
     errors |-> Cardinality(Raising(callbacks)), raised |-> FALSE]

\* TestStateManager.set_state, called by the caller, by run_test_case when it
\* finds the stop event set (line 583), and by start_test, complete_test and
\* fail_test while they hold the lock.  The callbacks only print.
set_state ==
    /\ LockFree
    /\ \E new_state \in PassedStates :
        /\ \/ Direct
           \/ AtStep /\ stop_event /\ new_state = "stopped"
           \/ inside = "start_test" /\ new_state = "running"
           \/ inside = "complete_test" /\ new_state = "completed"
           \/ inside = "fail_test" /\ new_state = "failed"
        /\ current_state' = new_state
    /\ notified' = NotifyCallbacks(state_callbacks)
    /\ pc' = CASE notified'.raised /\ pc = "rtc_loop" -> "rtc_except"  \* line 603
               [] notified'.raised -> "idle"                \* the exception leaves
               [] pc = "rtc_start_test" -> "rtc_loop"       \* line 574 returns
               [] pc = "rtc_loop" -> "rtc_reports"          \* break, then line 600
               [] pc = "rtc_complete_test" -> "rtc_reports" \* line 601 returns
               [] OTHER -> "idle"                           \* return, or re-raise
    /\ step_idx' = IF pc = "rtc_start_test" THEN 1 ELSE step_idx
    /\ inside' = "none"
    /\ lock' = "free"
    /\ last' = Call
    /\ UNCHANGED <<current_test_plan, counters, state_callbacks, test_cases, command_library, stop_event,
                   test_plan, steps, task_result, send_count, history>>
    /\ UNCHANGED <<judge, monitor>>

\* TestStateManager.start_test up to its call of set_state (line 120), which it
\* makes holding the lock; start_time is not modelled.
start_test ==
    /\ LockFree
    /\ \/ Direct /\ current_test_plan' \in {Some(p) : p \in PlanNames}
       \/ pc = "rtc_start_test" /\ inside = "none" /\ current_test_plan' = Some(test_plan)
    /\ lock' = "held"
    /\ test_results' = << >>
    /\ total_tests' = 0 /\ passed_tests' = 0 /\ failed_tests' = 0 /\ skipped_tests' = 0
    /\ inside' = "start_test"
    /\ missing_count' = 0
    /\ last' = Call
    /\ UNCHANGED <<current_state, observers, test_cases, command_library, stop_event, pc,
                   loop, task_result, send_count>>
    /\ UNCHANGED <<judge, monitor>>

\* TestStateManager.complete_test up to its call of set_state (line 126);
\* end_time is not modelled.
complete_test ==
    /\ LockFree
    /\ \/ Direct
       \/ AtLoopEnd /\ ~stop_event
    /\ lock' = "held"
    /\ inside' = "complete_test"
    /\ pc' = IF pc = "rtc_loop" THEN "rtc_complete_test" ELSE pc
    /\ last' = Call
    /\ UNCHANGED <<manager, test_cases, command_library, stop_event, loop, task_result,
                   send_count, history>>
    /\ UNCHANGED <<judge, monitor>>

\* TestStateManager.fail_test up to its call of set_state (line 132), from the
\* caller, from run_test_case's checks of the plan (lines 562, 567) and from its
\* exception handler (line 604).
fail_test ==
    /\ LockFree
    /\ \/ Direct
       \/ pc \in {"rtc_fail_test", "rtc_except"} /\ inside = "none"
    /\ lock' = "held"
    /\ inside' = "fail_test"
    /\ last' = Call
    /\ UNCHANGED <<manager, test_cases, command_library, stop_event, pc, loop,
                   task_result, send_count, history>>
    /\ UNCHANGED <<judge, monitor>>

\* An add_result that stores a Fail without counting it as failed.
add_result_Uncounted ==
    /\ LockFree
    /\ \/ Direct
       \/ pc = "rtc_add" /\ inside = "none"
    /\ task_result # None
    /\ Len(test_results) < MaxResults
    /\ LET result == task_result[1]
       IN  /\ test_results' = Append(test_results, result)
           /\ total_tests' = total_tests + 1
           /\ passed_tests' = IF result.result = "Pass" THEN passed_tests + 1 ELSE passed_tests
           /\ failed_tests' = failed_tests
           /\ skipped_tests' = IF result.result \notin {"Pass", "Fail"}
                               THEN skipped_tests + 1 ELSE skipped_tests
    /\ task_result' = None
    /\ pc' = IF pc = "rtc_add" THEN "rtc_loop" ELSE pc
    /\ step_idx' = IF pc = "rtc_add" THEN step_idx + 1 ELSE step_idx
    /\ last' = Call
    /\ UNCHANGED <<current_state, current_test_plan, observers, lock, test_cases,
                   command_library, stop_event, inside, test_plan, steps, send_count,
                   history>>
    /\ UNCHANGED <<judge, monitor>>

\* TestStateManager.add_result, with the result run_test_task returned (lines
\* 592-593).
add_result ==
    /\ LockFree
    /\ \/ Direct
       \/ pc = "rtc_add" /\ inside = "none"
    /\ task_result # None
    /\ Len(test_results) < MaxResults
    /\ LET result == task_result[1]
       IN  /\ test_results' = Append(test_results, result)
           /\ total_tests' = total_tests + 1
           /\ passed_tests' = IF result.result = "Pass" THEN passed_tests + 1 ELSE passed_tests
           /\ failed_tests' = IF result.result # "Pass" /\ result.result = "Fail"
                              THEN failed_tests + 1 ELSE failed_tests
           /\ skipped_tests' = IF result.result \notin {"Pass", "Fail"}
                               THEN skipped_tests + 1 ELSE skipped_tests
    /\ task_result' = None
    /\ pc' = IF pc = "rtc_add" THEN "rtc_loop" ELSE pc
    /\ step_idx' = IF pc = "rtc_add" THEN step_idx + 1 ELSE step_idx
    /\ last' = Call
    /\ UNCHANGED <<current_state, current_test_plan, observers, lock, test_cases,
                   command_library, stop_event, inside, test_plan, steps, send_count,
                   history>>
    /\ UNCHANGED <<judge, monitor>>


\* TestRunner.run_test_task, called by the caller and by run_test_case for the
\* step it is at (lines 587-591); a step without a command number is passed
\* over (line 588).
RunTestTask ==
    /\ \E step \in {Step(sn, Some(cn)) : sn \in StepNames, cn \in CommandNumbers}
                \cup {steps[i] : i \in {step_idx} \cap DOMAIN steps} :
        /\ \/ Direct /\ step.command_number # None
           \/ AtStep /\ ~stop_event /\ step = steps[step_idx]
        /\ IF step.command_number = None
           THEN /\ step_idx' = step_idx + 1
                /\ UNCHANGED <<pc, task_result, command_library, send_count, history, last>>
           ELSE \E t \in {run_test_task(step.step_name, step.command_number[1], stop_event,
                                        command_library, outcome, now) :
                              outcome \in DeviceOutcomes, now \in Times} :
                    /\ t.path \in {"judged", "missing"} => send_count + missing_count < MaxTasks
                    /\ task_result' = t.returned
                    /\ command_library' = t.library
                    /\ send_count' = IF t.path = "judged" THEN send_count + 1 ELSE send_count
                    /\ missing_count' = IF t.path = "missing"
                                        THEN missing_count + 1 ELSE missing_count
                    /\ last' = [path |-> t.path, command_number |-> step.command_number[1],
                                response |-> t.response]
                    /\ pc' = CASE pc = "idle" -> "idle"
                               [] t.path = "raised" -> "rtc_except"     \* line 603
                               [] t.returned # None -> "rtc_add"        \* line 592
                               [] OTHER -> "rtc_loop"
                    /\ step_idx' = IF pc = "rtc_loop" /\ t.path \in {"stopped", "missing"}
                                   THEN step_idx + 1 ELSE step_idx
    /\ UNCHANGED <<manager, lock, test_cases, stop_event, inside, test_plan, steps>>
    /\ UNCHANGED <<judge, monitor>>

\* TestRunner.run_test_case up to its first call of the manager: fail_test when
\* the plan is unknown or has no steps (lines 561-568), else start_test (line
\* 574).
run_test_case ==
    /\ Direct
    /\ \E plan \in PlanNames :
        IF plan \notin DOMAIN test_cases \/ test_cases[plan] = << >>
        THEN /\ pc' = "rtc_fail_test"
             /\ UNCHANGED <<test_plan, steps>>
        ELSE /\ pc' = "rtc_start_test"
             /\ test_plan' = plan
             /\ steps' = test_cases[plan]
    /\ step_idx' = 0
    /\ last' = Call
    /\ UNCHANGED <<manager, lock, test_cases, command_library, stop_event, inside,
                   task_result, send_count, history>>
    /\ UNCHANGED <<judge, monitor>>

\* TestStateManager.get_statistics up to its call of get_duration (line 160),
\* which it makes holding the lock; called by the caller and by
\* generate_final_reports at the end of run_test_case (line 609).
get_statistics ==
    /\ LockFree
    /\ \/ Direct
       \/ pc = "rtc_reports" /\ inside = "none"
       \/ AtLoopEnd /\ stop_event
    /\ lock' = "held"
    /\ inside' = "get_statistics"
    /\ pc' = IF pc = "rtc_loop" THEN "rtc_reports" ELSE pc
    /\ last' = Call
    /\ UNCHANGED <<manager, test_cases, command_library, stop_event, loop, task_result,
                   send_count, history>>
    /\ UNCHANGED <<judge, monitor>>

\* TestStateManager.get_duration, called by the caller and by get_statistics;
\* the times are not modelled.
get_duration ==
    /\ LockFree
    /\ \/ Direct
       \/ inside = "get_statistics"
    /\ lock' = "free"
    /\ inside' = "none"
    /\ pc' = "idle"
    /\ last' = Call
    /\ UNCHANGED <<manager, test_cases, command_library, stop_event, loop, task_result,
                   send_count, history>>
    /\ UNCHANGED <<judge, monitor>>

\* The steps of the caller thread.
ThreadNext ==
    \/ set_state
    \/ start_test
    \/ complete_test
    \/ fail_test
    \/ add_result
    \/ RunTestTask
    \/ run_test_case
    \/ get_statistics
    \/ get_duration

Next == SetStop \/ ThreadNext

Spec == Init /\ [][Next]_vars


\* The manager with callbacks that raise registered.
ObserverNext ==
    \/ register_state_callback
    \/ set_state
    \/ start_test
    \/ complete_test
    \/ fail_test

ObserverSpec == Init /\ [][ObserverNext]_vars

\* ------------------------------------------- judge_response on its own

\* Entries of Command_Line.yml of every condition type: the four commands whose
\* expected value the run supplies, the three entries of InitialLibrary, the
\* four deferred types, with a status and without, and the three format checks.
Entry(id, condition) ==
    [ID |-> id, Command_Sends |-> "cmd", Title |-> "Title",
     Response_Expectation |-> <<"K">>, Condition |-> condition]

IdentityIds == {"Get_SN_Number", "Get_FW_Version", "Get_LCM_Version", "Get_WiFi_Version"}

JudgeEntries ==
    {Entry(id, Cond("equal", Some(<<"3">>), 0, 0, None)) : id \in IdentityIds}
    \cup {InitialLibrary[n] : n \in DOMAIN InitialLibrary}
    \cup {Entry("Restore", Cond("restore", None, 0, 0, Some(<<"R">>))),
          Entry("Async", Cond("asynchrony", None, 0, 0, None)),
          Entry("Therapy_Start", Cond("therapy start", None, 0, 0, Some(<<"S">>))),
          Entry("Therapy_Stop", Cond("therapy stop", None, 0, 0, None)),
          Entry("Get_Time", Cond("valid timestamp", None, 0, 0, None)),
          Entry("Get_MAC", Cond("valid format_mac", None, 0, 0, None)),
          Entry("Get_Rcode", Cond("valid format_rcode", None, 0, 0, None))}

\* What send_command can hand to judge_response.
JudgeResponses ==
    {send_command(o) : o \in DeviceOutcomes}
    \cup {Some(<<"K", " ", "2">>), Some(<<"K", " ", "4">>)}

\* The call of judge_response run_test_task makes (lines 636-644).
JudgeCall ==
    /\ \E e \in JudgeEntries, r \in JudgeResponses, now \in Times :
        /\ j_entry' = e
        /\ j_response' = r
        /\ j_out' = Some(judge_response("Step1", e, r, now))
    /\ UNCHANGED v_call
    /\ UNCHANGED <<manager, lock, test_cases, command_library, stop_event, pc, inside,
                   loop, task_result, send_count, history, last, monitor>>

JudgeNext == JudgeCall

JudgeSpec == Init /\ [][JudgeNext]_vars


\* ------------------------------------------- the Validator on its own

\* Validator.validate_data of core/Conditional.py.  Its "between" case calls
\* int(actual_value) outside any try: a ValueError leaves the method (None here,
\* Some(b) when it returns b).  Its timestamp type is named "timestamp", and it
\* has no case for the codes and the deferred types.
Conditional_validate_data(condition, actual_value, now) ==
    CASE condition.type = "equal" -> Some(Some(actual_value) = condition.expected)
      [] condition.type = "between" ->
            LET v == PyInt(actual_value)
            IN  IF v = None THEN None
                ELSE Some(condition.low <= v[1] /\ v[1] <= condition.high)
      [] condition.type = "timestamp" -> Some(is_valid_timestamp(actual_value, now))
      [] condition.type = "valid format_mac" -> Some(is_valid_mac_address(actual_value))
      [] OTHER -> Some(FALSE)

\* The lines classify_data is given.
ValidatorLines ==
    { << >>, <<" ">>, <<"K">>, <<"K", " ">>, <<" ", "K">>, <<"K", " ", "7">>,
      <<"K", " ", " ", "7">>, <<"K", " ", "7", " ">>, <<"K", " ", "7", " ", "8">>,
      <<" ", "K", " ", "7">>, <<" ", " ">> }

\* The conditions validate_data is given: Between{10,20}, the range of
\* Get_Level, the timestamp type under the name each file knows, and an equality.
ValidatorConditions ==
    { Cond("between", None, 10, 20, None), InitialLibrary[2].Condition,
      Cond("valid timestamp", None, 0, 0, None), Cond("timestamp", None, 0, 0, None),
      Cond("equal", Some(<<"1", "5">>), 0, 0, None) }

\* The values validate_data is given: integers inside, at the ends of and outside
\* the ranges and the window around Times, with a sign or a blank, and no integer.
ValidatorValues ==
    { <<"1", "5">>, <<"2", "0">>, <<"2", "1">>, <<"1", "0">>, <<"9">>, <<"-", "5">>,
      <<" ", "1", "5">>, <<"a", "b", "c">>, << >>, <<"1", "5", "x">>,
      <<"1", "0", "0", "0">>, <<"7", "0", "1">>, <<"7", "0", "0">>,
      <<"1", "2", "9", "9">>, <<"1", "3", "0", "0">> }

ValidatorCall(op, raw, condition, actual_value, now, out) ==
    /\ v_call' = [op |-> op, raw |-> raw, condition |-> condition,
                  actual_value |-> actual_value, now |-> now, out |-> out]
    /\ UNCHANGED <<manager, lock, test_cases, command_library, stop_event, pc, inside,
                   loop, task_result, send_count, history, last, monitor>>
    /\ UNCHANGED <<j_entry, j_response, j_out>>

\* A call of Validator.classify_data.
classify_call ==
    \E raw \in ValidatorLines :
        ValidatorCall("classify_data", raw, NoCall.condition, << >>, 0,
                      Some(classify_data(raw)))

\* A call of Validator.validate_data at the time `now`.
validate_call ==
    \E c \in ValidatorConditions, v \in ValidatorValues, now \in Times :
        ValidatorCall("validate_data", << >>, c, v, now, Some(validate_data(c, v, now)))

\* A call of the Validator.validate_data of core/Conditional.py.
Conditional_validate_call ==
    \E c \in ValidatorConditions, v \in ValidatorValues, now \in Times :
        ValidatorCall("Conditional.validate_data", << >>, c, v, now,
                      Conditional_validate_data(c, v, now))

ValidatorNext == classify_call \/ validate_call \/ Conditional_validate_call

ValidatorSpec == Init /\ [][ValidatorNext]_vars

\* ------------------------------------- main, the monitor and the port

\* retry_times of Serial_Port_Monitoring.py
retry_times == 5

\* Lines the device sends, before strip(); a piece of text the monitor looks
\* for as a whole is one element.
MonitorLines == {<<" ">>, <<">">>, <<"[time_tick+ok]">>, <<"x">>, <<"time_tick">>}

\* The line the device answers a command of send_command with.
ReplyLine == <<"x">>

\* sends_command of Serial_Port_Monitoring.py, the command the handshake writes.
sends_command == <<"time_tick">>

\* sent_command_echo of monitor_serial_port: assigned None, and nothing else.
sent_command_echo == None

\* `not response or response == sent_command_echo` (line 104)
IsEcho(response) == response = << >> \/ Some(response) = sent_command_echo

\* The exception a read meets.
Fault(o) ==
    CASE o.kind = "serial error" -> "SerialException"
      [] o.kind = "undecodable" -> "UnicodeDecodeError"
      [] OTHER -> "none"

\* What `if ser.in_waiting > 0: ser.readline().decode('utf-8').strip()` meets:
\* nothing waiting, a line, a serial.SerialException, or bytes that are not
\* UTF-8, for which decode raises UnicodeDecodeError.
ReadOutcomes ==
    {[kind |-> k, line |-> << >>] : k \in {"nothing", "serial error", "undecodable"}}
        \cup {[kind |-> "line", line |-> strip(l)] : l \in MonitorLines}

\* `response == '>' or response == ''` (lines 54, 99)
IsPromptOrBlank(response) == response = <<">">> \/ response = << >>

\* A pattern that every line matches.
connected_response_pattern_Any(response) == TRUE

\* re.match(connected_response_pattern, response) (line 57): the response
\* begins with [time_tick+ok].
connected_response_pattern(response) ==
    response # << >> /\ Head(response) = "[time_tick+ok]"

\* A wait() without a timeout.
WaitTimesOut_Never == FALSE

\* connection_event.wait(timeout=30) returns when the time is up (line 687).
WaitTimesOut == TRUE

\* The rest of monitor's frame.
orchestrator == <<manager, lock, test_cases, command_library, pc, inside, loop,
                  task_result, history, last, judge>>

\* main starts the monitor thread (lines 678-683).
main_start ==
    /\ main_pc = "start"
    /\ main_pc' = "wait"
    /\ mon_pc' = "outer"
    /\ UNCHANGED <<orchestrator, stop_event, send_count, connection_event, ser,
                   open_handles, attempt, hs_sent, hs_set, hs_timeouts, mon_line, tx_pc>>
    /\ UNCHANGED <<mon_fault, mon_examined>>
    /\ UNCHANGED <<tx_returned, reply>>

\* main waits for connection_event (lines 687-690): set, it goes on; the time
\* up, it sets stop_event and returns.
main_wait ==
    /\ main_pc = "wait"
    /\ \/ /\ connection_event
          /\ main_pc' = "load"
          /\ UNCHANGED stop_event
       \/ /\ ~connection_event /\ WaitTimesOut
          /\ main_pc' = "done"
          /\ stop_event' = TRUE
    /\ UNCHANGED <<orchestrator, send_count, connection_event, mon_pc, ser, open_handles,
                   attempt, hs_sent, hs_set, hs_timeouts, mon_line, tx_pc>>
    /\ UNCHANGED <<mon_fault, mon_examined>>
    /\ UNCHANGED <<tx_returned, reply>>

\* main loads Selected_Test_Plan.yml (lines 695-698) and returns when it is not
\* valid, else builds the runner and calls run_test_case (line 710).
main_load ==
    /\ main_pc = "load"
    /\ \E valid \in BOOLEAN : main_pc' = IF valid THEN "run" ELSE "done"
    /\ UNCHANGED <<orchestrator, stop_event, send_count, connection_event, mon_pc, ser,
                   open_handles, attempt, hs_sent, hs_set, hs_timeouts, mon_line, tx_pc>>
    /\ UNCHANGED <<mon_fault, mon_examined>>
    /\ UNCHANGED <<tx_returned, reply>>

\* send_command, called by run_test_task (line 631) inside main's run_test_case
\* unless the stop event is set (line 615): `with serial.Serial(...)` opens a
\* handle of its own on the port, or raises and None is returned.
send_open ==
    /\ main_pc = "run" /\ tx_pc = "none"
    /\ ~stop_event
    /\ send_count < MaxTasks
    /\ send_count' = send_count + 1
    /\ \/ /\ tx_pc' = "open"                       \* the command is written (line 468)
          /\ reply' \in {"waiting", "none"}        \* and the device answers, or not
          /\ UNCHANGED tx_returned
       \/ /\ tx_pc' = "none"                       \* lines 483-485
          /\ reply' = "none"
          /\ tx_returned' = "None"
    /\ UNCHANGED <<orchestrator, stop_event, main_pc, connection_event, mon_pc, ser,
                   open_handles, attempt, hs_sent, hs_set, hs_timeouts, mon_line>>
    /\ UNCHANGED <<mon_fault, mon_examined>>

\* send_command has slept and reads (lines 472-481): the line that waits, or
\* None when none does, and leaves the `with`.
send_close ==
    /\ tx_pc = "open"
    /\ tx_pc' = "none"
    /\ IF reply = "waiting"
       THEN reply' = "send_command" /\ tx_returned' = "line"
       ELSE reply' = reply /\ tx_returned' = "None"
    /\ UNCHANGED <<orchestrator, stop_event, send_count, main_pc, connection_event,
                   mon_pc, ser, open_handles, attempt, hs_sent, hs_set, hs_timeouts,
                   mon_line>>
    /\ UNCHANGED <<mon_fault, mon_examined>>

\* run_test_case returns or raises, or the user interrupts it (lines 710-718).
main_run_ends ==
    /\ main_pc = "run" /\ tx_pc = "none"
    /\ main_pc' = "cleanup"
    /\ UNCHANGED <<orchestrator, stop_event, send_count, connection_event, mon_pc, ser,
                   open_handles, attempt, hs_sent, hs_set, hs_timeouts, mon_line, tx_pc>>
    /\ UNCHANGED <<mon_fault, mon_examined>>
    /\ UNCHANGED <<tx_returned, reply>>

\* main's finally clears connection_event (line 722).
main_cleanup ==
    /\ main_pc = "cleanup"
    /\ connection_event' = FALSE
    /\ main_pc' = "cleanup stop"
    /\ UNCHANGED <<orchestrator, stop_event, send_count, mon_pc, ser, open_handles, attempt, hs_sent,
                   hs_set, hs_timeouts, mon_line, tx_pc>>
    /\ UNCHANGED <<mon_fault, mon_examined>>
    /\ UNCHANGED <<tx_returned, reply>>

\* main's finally sets stop_event, joins the monitor thread for five seconds at
\* most and returns (lines 723-725).
main_cleanup_stop ==
    /\ main_pc = "cleanup stop"
    /\ stop_event' = TRUE
    /\ main_pc' = "done"
    /\ UNCHANGED <<orchestrator, send_count, connection_event, mon_pc, ser, open_handles,
                   attempt, hs_sent, hs_set, hs_timeouts, mon_line, tx_pc>>
    /\ UNCHANGED <<mon_fault, mon_examined>>
    /\ UNCHANGED <<tx_returned, reply>>

\* An event that is never seen set.
is_set_Never(event) == FALSE

\* threading.Event.is_set
is_set(event) == event

\* The monitor leaves main's variables, the stop event and send_command alone.
elsewhere == <<orchestrator, stop_event, send_count, main_pc, tx_pc>>

\* `while not stop_event.is_set(): ser = None` (lines 79-80)
monitor_loop ==
    /\ mon_pc = "outer"
    /\ IF is_set(stop_event)
       THEN mon_pc' = "returned" /\ ser' = ser
       ELSE mon_pc' = "open" /\ ser' = "none"
    /\ mon_line' = None /\ mon_fault' = "none" /\ mon_examined' = FALSE
    /\ UNCHANGED <<elsewhere, connection_event, open_handles, attempt, hs_sent, hs_set,
                   hs_timeouts>>
    /\ UNCHANGED <<tx_returned, reply>>

\* serial.Serial(...) (line 82) and the call of establish_uart_connection (line
\* 86), or the SerialException handled at lines 135-137.
monitor_open ==
    /\ mon_pc = "open"
    /\ \/ /\ ser' = "open"
          /\ open_handles' = open_handles + 1
          /\ mon_pc' = "hs_write"
          /\ attempt' = 1 /\ hs_sent' = 0 /\ hs_set' = 0 /\ hs_timeouts' = 0
          /\ mon_fault' = "none"
       \/ /\ mon_pc' = "finally"
          /\ mon_fault' = "SerialException"
          /\ UNCHANGED <<ser, open_handles, attempt, hs_sent, hs_set, hs_timeouts>>
    /\ UNCHANGED <<elsewhere, connection_event, mon_line, mon_examined>>
    /\ UNCHANGED <<tx_returned, reply>>

\* An establish_uart_connection that returns False when its first attempt fails.
AttemptOver_Once == attempt' = attempt /\ mon_pc' = "clear"

\* The attempt is over (lines 62-63 and 65-67): the next one begins, or after
\* retry_times attempts establish_uart_connection returns False and the monitor
\* goes on at line 134.
AttemptOver ==
    IF attempt < retry_times
    THEN attempt' = attempt + 1 /\ mon_pc' = "hs_write"
    ELSE attempt' = attempt /\ mon_pc' = "clear"

\* establish_uart_connection writes the command (lines 44-45), or the write
\* raises SerialException (lines 65-67).
establish_write ==
    /\ mon_pc = "hs_write"
    /\ \/ /\ hs_sent' = hs_sent + 1
          /\ mon_pc' = "hs_read"
          /\ mon_fault' = "none"
          /\ UNCHANGED attempt
       \/ /\ AttemptOver
          /\ mon_fault' = "SerialException"
          /\ UNCHANGED hs_sent
    /\ UNCHANGED <<elsewhere, connection_event, ser, open_handles, hs_set, hs_timeouts,
                   mon_line, mon_examined>>
    /\ UNCHANGED <<tx_returned, reply>>

\* One turn of establish_uart_connection's read loop (lines 49-60).
establish_read ==
    /\ mon_pc = "hs_read"
    /\ \E o \in ReadOutcomes :
        /\ mon_line' = IF o.kind = "line" THEN Some(o.line) ELSE None
        /\ mon_fault' = Fault(o) /\ mon_examined' = FALSE
        /\ CASE o.kind = "line" /\ ~IsPromptOrBlank(o.line)
                                /\ connected_response_pattern(o.line) ->
                    /\ connection_event' = TRUE
                    /\ hs_set' = hs_set + 1
                    /\ mon_pc' = "inner"
                    /\ UNCHANGED attempt
             [] o.kind = "serial error" ->
                    /\ AttemptOver
                    /\ UNCHANGED <<connection_event, hs_set>>
             [] o.kind = "undecodable" ->
                    /\ mon_pc' = "finally raise"
                    /\ UNCHANGED <<connection_event, hs_set, attempt>>
             [] OTHER -> UNCHANGED <<connection_event, hs_set, mon_pc, attempt>>
    /\ UNCHANGED <<elsewhere, ser, open_handles, hs_sent, hs_timeouts>>
    /\ UNCHANGED <<tx_returned, reply>>

\* response_timeout has passed (line 49): lines 62-63.
establish_timeout ==
    /\ mon_pc = "hs_read"
    /\ hs_timeouts' = hs_timeouts + 1
    /\ AttemptOver
    /\ mon_line' = None /\ mon_fault' = "none" /\ mon_examined' = FALSE
    /\ UNCHANGED <<elsewhere, connection_event, ser, open_handles, hs_sent, hs_set>>
    /\ UNCHANGED <<tx_returned, reply>>

\* One turn of the monitor's inner loop (lines 89-132); sent_command_echo is
\* None throughout, and the three flags the loop sets are read by nothing.
monitor_inner ==
    /\ mon_pc = "inner"
    /\ IF is_set(stop_event)
       THEN /\ mon_pc' = "clear"
            /\ mon_line' = None /\ mon_fault' = "none" /\ mon_examined' = FALSE
            /\ UNCHANGED reply
       ELSE \E o \in ReadOutcomes :
            LET received == /\ o.kind = "line"           \* line 109 is reached
                            /\ ~IsPromptOrBlank(o.line)
                            /\ ~IsEcho(o.line)
            IN  /\ mon_line' = IF o.kind = "line" THEN Some(o.line) ELSE None
                /\ mon_fault' = Fault(o)
                /\ mon_examined' = received
                \* the line read is the reply that waits, or another
                /\ \/ /\ o.kind = "line" /\ o.line = ReplyLine
                      /\ reply = "waiting" /\ reply' = "monitor"
                   \/ UNCHANGED reply
                /\ mon_pc' = CASE o.kind = "serial error" -> "finally"
                               [] o.kind = "undecodable" -> "finally raise"
                               [] received /\ ~is_set(connection_event) -> "clear"
                               [] OTHER -> "inner"
    /\ UNCHANGED <<elsewhere, connection_event, ser, open_handles, attempt, hs_sent,
                   hs_set, hs_timeouts>>
    /\ UNCHANGED tx_returned

\* connection_event.clear() (line 134)
monitor_clear ==
    /\ mon_pc = "clear"
    /\ connection_event' = FALSE
    /\ mon_pc' = "finally"
    /\ mon_fault' = "none"
    /\ UNCHANGED <<elsewhere, ser, open_handles, attempt, hs_sent, hs_set, hs_timeouts,
                   mon_line, mon_examined>>
    /\ UNCHANGED <<tx_returned, reply>>

\* A finally clause after which every exception ends the thread.
monitor_finally_Fatal ==
    /\ mon_pc \in {"finally", "finally raise"}
    /\ IF ser = "open"
       THEN ser' = "closed" /\ open_handles' = open_handles - 1
       ELSE UNCHANGED <<ser, open_handles>>
    /\ mon_pc' = IF mon_pc = "finally" /\ mon_fault = "none" THEN "outer" ELSE "raised"
    /\ mon_fault' = "none"
    /\ UNCHANGED <<elsewhere, connection_event, attempt, hs_sent, hs_set, hs_timeouts,
                   mon_line, mon_examined>>
    /\ UNCHANGED <<tx_returned, reply>>

\* The finally clause (lines 139-143); after it the loop goes round, or the
\* exception that no clause handled ends the thread.
monitor_finally ==
    /\ mon_pc \in {"finally", "finally raise"}
    /\ IF ser = "open"
       THEN ser' = "closed" /\ open_handles' = open_handles - 1
       ELSE UNCHANGED <<ser, open_handles>>
    /\ mon_pc' = IF mon_pc = "finally" THEN "outer" ELSE "raised"
    /\ mon_fault' = "none"
    /\ UNCHANGED <<elsewhere, connection_event, attempt, hs_sent, hs_set, hs_timeouts,
                   mon_line, mon_examined>>
    /\ UNCHANGED <<tx_returned, reply>>

MonitorNext ==
    \/ monitor_loop
    \/ monitor_open
    \/ establish_write
    \/ establish_read
    \/ establish_timeout
    \/ monitor_inner
    \/ monitor_clear
    \/ monitor_finally

MainNext ==
    \/ main_start
    \/ main_wait
    \/ main_load
    \/ send_open
    \/ send_close
    \/ main_run_ends
    \/ main_cleanup
    \/ main_cleanup_stop

MonNext == MainNext \/ MonitorNext

MonSpec == Init /\ [][MonNext]_vars

\* Each step of the monitor that waits for nothing but the clock, and each step
\* of main but the return of run_test_case, is taken in the end.
MonFairSpec ==
    /\ MonSpec
    /\ WF_vars(monitor_loop) /\ WF_vars(monitor_open) /\ WF_vars(establish_write)
    /\ WF_vars(establish_timeout) /\ WF_vars(monitor_inner /\ mon_pc' # mon_pc)
    /\ WF_vars(monitor_clear) /\ WF_vars(monitor_finally)
    /\ WF_vars(main_start) /\ WF_vars(main_wait) /\ WF_vars(main_load)
    /\ WF_vars(main_cleanup) /\ WF_vars(main_cleanup_stop)


\* ------------------------------------------------------------- claims

\* run_test_case has been called and has not returned.
InRun == pc # "idle"

\* The thread can make no further step: every call it could make waits.
Stalled == ~ENABLED ThreadNext

\* The steps of a plan whose command number has an entry in the library.
RECURSIVE StepsWithEntry(_, _)
StepsWithEntry(ss, library) ==
    IF ss = << >> THEN 0
    ELSE StepsWithEntry(Tail(ss), library)
         + (IF /\ Head(ss).command_number # None
               /\ PyInt(Head(ss).command_number[1]) # None
               /\ PyInt(Head(ss).command_number[1])[1] \in DOMAIN library
            THEN 1 ELSE 0)

\* C1: a run of the plan whose commands all exist, with the stop event set while
\* k steps are done, ends in "stopped" with exactly k results: it does not come
\* to rest in another state or with another number of results.
C1_StopBetweenSteps ==
    (InRun /\ test_plan = "plan" /\ stop_event /\ Stalled)
        => /\ current_state = "stopped"
           /\ Len(test_results) = step_idx - 1

\* C2: once the stop event is set during a run of any plan that has steps, the
\* run ends "stopped": it does not come to rest in another state.
C2_StopEndsStopped ==
    (InRun /\ steps # << >> /\ stop_event /\ Stalled) => current_state = "stopped"

\* C3: start_test moves the state on to "running": the call of set_state it
\* makes can be made.
C3_StartReachesRunning ==
    inside = "start_test" => ENABLED set_state

\* C4: a run whose stop event is never set ends "completed": it does not come to
\* rest in another state.
C4_RunCompletes ==
    (InRun /\ steps # << >> /\ ~stop_event /\ Stalled) => current_state = "completed"

\* C5: a run whose stop event is never set has, when it comes to rest, one
\* result for every step whose command has an entry.
C5_OneResultPerStep ==
    (InRun /\ steps # << >> /\ ~stop_event /\ Stalled)
        => Len(test_results) = StepsWithEntry(steps, command_library)

\* The entry of the command the thread's last run_test_task judged, as the call
\* left it.
LastEntry == command_library[PyInt(last.command_number)[1]]

\* The thread's last call judged a response whose prefix is the expected one.
JudgedMatch ==
    /\ last.path = "judged"
    /\ Truthy(last.response)
    /\ classify_data(last.response[1]).prefix = LastEntry.Response_Expectation

\* The thread's last call judged a response whose prefix is not the expected one.
JudgedMismatch ==
    /\ last.path = "judged"
    /\ Truthy(last.response)
    /\ classify_data(last.response[1]).prefix # LastEntry.Response_Expectation

\* What evaluating a condition on an Optional value yields: an absent value
\* equals nothing and parses as nothing, so only a deferred condition holds of it.
ConditionHolds(condition, actual_value) ==
    IF actual_value = None
    THEN condition.type \in DeferredTypes
    ELSE \E now \in Times : validate_data(condition, actual_value[1], now)

\* C6: a response with the expected prefix is recorded as Pass exactly when the
\* step's condition holds of its value, present or absent.
C6_PassIffConditionHolds ==
    JudgedMatch
        => (task_result[1].result = "Pass"
              <=> ConditionHolds(LastEntry.Condition, task_result[1].actual_value))

\* C7: a response whose prefix is not the expected one yields one result, a Fail
\* whose message names the mismatch, with the value of the response and no
\* expected value; the condition is left as it was.
C7_PrefixMismatch ==
    [][JudgedMismatch'
        => /\ task_result' # None
           /\ task_result'[1].result = "Fail"
           /\ task_result'[1].error_message =
                  Some([text |-> "Prefix mismatch",
                        expected |-> Some(LastEntry'.Response_Expectation),
                        got |-> Some(classify_data(last'.response[1]).prefix)])
           /\ task_result'[1].prefix = classify_data(last'.response[1]).prefix
           /\ task_result'[1].actual_value = classify_data(last'.response[1]).actual_value
           /\ task_result'[1].expected_value = None
           /\ command_library' = command_library]_vars

C7_Witness ==
    /\ JudgedMismatch
    /\ last.command_number = <<"1">>
    /\ task_result # None
    /\ task_result[1].actual_value = Some(<<"7">>)
    /\ task_result[1].result = "Fail"

\* The thread's last call invoked send_command and got no line.
JudgedNoLine == last.path = "judged" /\ last.response = None

\* C8 (as amended): when send_command yields no line, run_test_task returns one
\* result, a Fail with the message "No response received"; nothing is raised,
\* the state is left as it was and the thread goes on.
C8_NoResponseFails ==
    [][JudgedNoLine'
        => /\ task_result' # None
           /\ task_result'[1].result = "Fail"
           /\ task_result'[1].error_message =
                  Some([text |-> "No response received", expected |-> None, got |-> None])
           /\ current_state' = current_state
           /\ pc' = pc /\ inside' = inside /\ lock' = lock]_vars

C8_Witness ==
    /\ JudgedNoLine
    /\ current_state = "running"
    /\ task_result # None
    /\ task_result[1].result = "Fail"
    /\ Direct

\* C8 (as stated): the message of that result is "no response".
C8_MessageNoResponse ==
    JudgedNoLine
        => task_result[1].error_message =
               Some([text |-> "no response", expected |-> None, got |-> None])

\* The thread's last call was run_test_task, with the stop event unset, for a
\* command number that has no entry in the library.
MissingStep ==
    /\ last.path \notin {"call", "stopped"}
    /\ PyInt(last.command_number) # None
    /\ PyInt(last.command_number)[1] \notin DOMAIN command_library

C10_SkippedCountsMissing ==
    current_state = "running" => skipped_tests = missing_count

\* C11: fail_test, which run_test_case's handler calls for a fault of a running
\* test, moves the state to "failed": the call never comes to rest with the state
\* still "running".
C11_FaultEndsFailed ==
    ~(inside = "fail_test" /\ Stalled /\ current_state = "running")

JudgeMatched ==
    /\ j_out # None
    /\ Truthy(j_response)
    /\ classify_data(j_response[1]).prefix = j_entry.Response_Expectation

\* C19: a deferred step that judge_response records as Pass, which it does from
\* the reply alone, says in its message or its expected value that the reply
\* did not prove it.
C19_DeferredNotProved ==
    (JudgeMatched /\ j_entry.Condition.type \in DeferredTypes
                  /\ j_out[1].result.result = "Pass")
        => \/ j_out[1].result.error_message # NoError
           \/ j_out[1].result.expected_value = Some(<<"N/A">>)

\* The value of the run the command of an entry is compared with.
RunValue(id) ==
    CASE id = "Get_SN_Number" -> user_inputs.device_sn
      [] id = "Get_FW_Version" -> user_inputs.fw_version
      [] id = "Get_LCM_Version" -> user_inputs.sw_version
      [] id = "Get_WiFi_Version" -> user_inputs.wifi_version

\* C20: for one of the four identity commands and a response with the expected
\* prefix, the result is Pass exactly when the value of the response is the
\* value of the run, and the expected value of the result is the value of the run.
C20_IdentitySubstituted ==
    (JudgeMatched /\ j_entry.ID \in IdentityIds)
        => /\ j_out[1].result.result = "Pass"
                <=> j_out[1].result.actual_value = Some(RunValue(j_entry.ID))
           /\ j_out[1].result.expected_value = Some(RunValue(j_entry.ID))

\* C13: the monitor never holds its handle on the port open while send_command
\* holds one.
C13_SingleOwner ==
    ~(open_handles > 0 /\ tx_pc = "open")

\* The monitor is inside establish_uart_connection.
InHandshake == mon_pc \in {"hs_write", "hs_read"}

\* C14: send_command holds no handle on the port while the monitor is inside
\* establish_uart_connection.
C14_NoSendDuringHandshake ==
    InHandshake => tx_pc = "none"

\* monitor_serial_port has ended, by returning or by an exception no clause
\* handles.
MonitorEnded == mon_pc \in {"returned", "raised"}

\* C15: once the stop event is set, the monitor closes its handle and ends.
C15_StopEndsMonitor ==
    stop_event ~> (MonitorEnded /\ open_handles = 0)

C15_Witness ==
    /\ stop_event
    /\ mon_pc = "returned"
    /\ ser = "closed"
    /\ open_handles = 0
    /\ main_pc = "done"
    /\ send_count > 0

\* C16: the monitor ends only when the stop event is set.
C16_EndsOnlyOnStop ==
    MonitorEnded => stop_event

\* C17: establish_uart_connection returns True on a line that matches the
\* pattern, with connection_event set once by the call; when every earlier
\* attempt timed out it has then written the command once per attempt.  A blank
\* line or the prompt read in an attempt changes nothing.
C17_HandshakeSucceeds ==
    [][/\ (mon_pc = "hs_read" /\ mon_pc' = "inner")
            => /\ mon_line' # None
               /\ mon_line'[1] # << >>
               /\ Head(mon_line'[1]) = "[time_tick+ok]"
               /\ connection_event'
               /\ hs_set' = 1
               /\ attempt' = attempt /\ attempt <= retry_times
               /\ hs_timeouts = attempt - 1 => hs_sent' = attempt
       /\ (establish_read /\ mon_line' \in {Some(<< >>), Some(<<">">>)})
            => UNCHANGED <<mon_pc, attempt, connection_event, hs_sent, hs_set,
                           hs_timeouts>>]_vars

C17_Witness ==
    /\ mon_pc = "inner"
    /\ mon_line = Some(<<"[time_tick+ok]">>)
    /\ attempt = 3 /\ hs_timeouts = 2 /\ hs_sent = 3
    /\ hs_set = 1
    /\ connection_event

\* C18: when connection_event is never set, main ends with the stop event set
\* and without a call of send_command.
C18_StartupFailure ==
    ([]~connection_event) => <>(main_pc = "done" /\ stop_event /\ send_count = 0)

C18_Witness ==
    /\ main_pc = "done"
    /\ stop_event
    /\ send_count = 0
    /\ ~connection_event /\ hs_set = 0
    /\ hs_timeouts > 0

\* C21: get_statistics returns a value: a call of it never comes to rest before
\* it has computed the pass rate.
C21_StatisticsReturn ==
    ~(inside = "get_statistics" /\ Stalled)

\* What int(v) is for the value of the last call of validate_data, None when it
\* raises ValueError.
ParsedValue == PyInt(v_call.actual_value)

\* C22: classify_data yields a prefix and a value from which the line is rebuilt:
\* the line is the prefix when the value is None, and prefix + " " + value
\* otherwise; the empty line yields the prefix "" and the value None.
C22_ClassifyRebuilds ==
    v_call.op = "classify_data" =>
        LET c == v_call.out[1]
        IN  /\ IF c.actual_value = None
               THEN v_call.raw = c.prefix
               ELSE v_call.raw = c.prefix \o <<" ">> \o c.actual_value[1]
            /\ v_call.raw = << >> => c = [prefix |-> << >>, actual_value |-> None]

C22_Witness ==
    /\ v_call.op = "classify_data"
    /\ v_call.raw = << >>
    /\ v_call.out = Some([prefix |-> << >>, actual_value |-> None])

\* C23: validate_data of core/Conditional.py, given a "between" condition,
\* returns: False when the value is no integer, and otherwise whether
\* low <= int(value) <= high.
C23_BetweenReturns ==
    (v_call.op = "Conditional.validate_data" /\ v_call.condition.type = "between") =>
        /\ v_call.out # None
        /\ v_call.out[1] = /\ ParsedValue # None
                           /\ v_call.condition.low <= ParsedValue[1]
                           /\ ParsedValue[1] <= v_call.condition.high

\* C24: validate_data, given the "valid timestamp" condition, returns False when
\* the value is no integer, and otherwise whether now - 300 < int(value) < now + 300.
C24_TimestampWindow ==
    (v_call.op = "validate_data" /\ v_call.condition.type = "valid timestamp") =>
        v_call.out = Some(/\ ParsedValue # None
                          /\ v_call.now - 300 < ParsedValue[1]
                          /\ ParsedValue[1] < v_call.now + 300)

C24_Witness ==
    /\ v_call.op = "validate_data"
    /\ v_call.condition.type = "valid timestamp"
    /\ ParsedValue = Some(v_call.now - 300)
    /\ v_call.out = Some(FALSE)

\* establish_uart_connection returns False: the monitor goes from the handshake
\* to line 134.
ReturnsFalse == InHandshake /\ mon_pc' = "clear"

C26_SerialErrorRetried ==
    /\ [](mon_fault = "SerialException" => ~MonitorEnded)
    /\ (mon_fault = "SerialException") ~> (stop_event \/ mon_pc \in {"hs_write", "open"})

C26_Witness ==
    /\ mon_fault = "SerialException"
    /\ mon_pc = "finally"
    /\ ser = "open"
    /\ hs_set = 1
    /\ ~stop_event

\* C27: a turn of the inner loop that finds connection_event cleared and the stop
\* event not set leaves the loop, whatever it reads.
C27_LostConnectionLeaves ==
    [][(mon_pc = "inner" /\ ~connection_event /\ ~stop_event /\ monitor_inner)
           => mon_pc' # "inner"]_vars

\* C28: the inner loop takes no line for device output that is blank, the
\* prompt, or the command written last (the handshake's, when send_command has
\* written none).
C28_EchoDiscarded ==
    (mon_pc = "inner" /\ mon_examined) =>
        /\ mon_line \notin {Some(<< >>), Some(<<">">>)}
        /\ ~(send_count = 0 /\ hs_sent > 0 /\ mon_line = Some(sends_command))

\* C29: when main has returned after starting the monitor, the stop event is
\* set.
C29_StopOnEveryExit ==
    main_pc = "done" => stop_event

\* C30: only a step of the monitor changes connection_event, and only a step of
\* main changes the stop event.
C30_SingleWriter ==
    [][/\ connection_event' # connection_event => MonitorNext
       /\ stop_event' # stop_event => MainNext]_vars

\* C31: no step changes an entry of the command library.
C31_LibraryUnchanged ==
    [][command_library' = command_library]_vars

\* C32: a set_state whose callbacks raise has called every registered callback,
\* the new state is in force, and no exception has left it: the thread goes on
\* as after a set_state whose callbacks all return.
C32_ObserverErrorContained ==
    /\ notified.called = notified.registered
    /\ ~notified.raised
    /\ notified.errors > 0 => /\ current_state \in PassedStates
                              /\ pc # "rtc_except"

C32_Witness ==
    /\ state_callbacks = <<"prints", "raises", "prints">>
    /\ notified = [registered |-> 3, called |-> 3, errors |-> 1, raised |-> FALSE]
    /\ current_state = "stopped"
    /\ lock = "free"

\* C33: once a run has been started a duration can be reported: the thread does
\* not come to rest with a plan current and get_duration unable to run.
C33_DurationReported ==
    ~(current_test_plan # None /\ lock = "held" /\ Stalled)

\* C34: no method of the manager waits for the lock for ever: the thread never
\* comes to rest inside a method that holds the lock.
C34_LockReleased ==
    ~(lock = "held" /\ inside # "none" /\ ~ENABLED ThreadNext)

\* C35: while connection_event is set the monitor holds an open handle on which
\* the handshake succeeded.
C35_SetMeansConnected ==
    connection_event => (ser = "open" /\ open_handles = 1 /\ hs_set = 1)

\* C37: once the stop event is set the monitor writes no handshake command and
\* connection_event is not set.
C37_NoHandshakeAfterStop ==
    [][stop_event => /\ hs_sent' <= hs_sent
                     /\ connection_event' => connection_event]_vars

\* C36: the monitor's inner loop reads no reply of the device to a command of
\* send_command, and send_command returns None only when the device sent none.
C36_RepliesReachSend ==
    /\ reply # "monitor"
    /\ (tx_returned = "None" /\ tx_pc = "none") => reply = "none"

\* The stored results whose outcome is r.
Stored(r) == {i \in DOMAIN test_results : test_results[i].result = r}

\* C38: the counters of the manager agree with the results it stores: the total
\* is their number and the sum of passed, failed and skipped, and passed and
\* failed are the numbers of stored Pass and Fail results.
C38_CountersMatchResults ==
    /\ total_tests = passed_tests + failed_tests + skipped_tests
    /\ total_tests = Len(test_results)
    /\ passed_tests = Cardinality(Stored("Pass"))
    /\ failed_tests = Cardinality(Stored("Fail"))

C38_Witness ==
    /\ Len(test_results) = 2
    /\ test_results[1].result = "Pass"
    /\ test_results[2].result = "Fail"
    /\ total_tests = 2 /\ passed_tests = 1 /\ failed_tests = 1 /\ skipped_tests = 0

=============================================================================
